---- MODULE Spec2Model ----
(***************************************************************************)
(* A model of the segregated free-list allocator of src/allocator.c:       *)
(* xxmalloc, xxfree and xxmalloc_usable_size over the eight free-list      *)
(* heads, the memory words they read and write, and the mappings obtained  *)
(* from mmap.                                                              *)
(*                                                                         *)
(* Memory is modelled word by word (a word is a pointer or a size_t);      *)
(* `mem' holds the words that have been written, every other word of a     *)
(* mapped page reads as zero (anonymous mappings are zero-filled).         *)
(* Pointers handed to the allocator by callers are word-aligned.           *)
(***************************************************************************)
EXTENDS Integers, Sequences, FiniteSets, TLC

(***************************************************************************)
(* Program constants.                                                      *)
(***************************************************************************)
MIN_MALLOC_SIZE == 16
PAGE_SIZE == 4096
MAGIC_NUMBER == 694558
NULL == 0
MaxClass == 2048
NumLists == 8
\* sizeof(node_t*) = sizeof(size_t): the width of a link and of block_size.
WordBytes == 8
\* offsetof(header_node_t, block_size): the int tag is padded to one word.
BlockSizeOffset == 8

(***************************************************************************)
(* Bounds of the model.                                                    *)
(***************************************************************************)
\* Width of size_t and of a pointer, in bits; arithmetic is modulo 2^SizeBits.
SizeBits == 24
\* Calls (allocate, free, size queries, caller writes) per behaviour
\* of SpecWB, of SpecLifo, of SpecSizes and of Spec.
MaxCalls == 5
MaxLifoCalls == 6
MaxSizeCalls == 3
MaxAnyCalls == 5
\* Calls per behaviour of SpecDF.
MaxDFCalls == 5
\* Calls per behaviour of SpecHdr.
MaxHdrCalls == 5
\* Calls per behaviour of SpecMT, over both threads.
MaxMTCalls == 4
\* Calls per behaviour of SpecCons.
MaxConsCalls == 6
\* Caller writes per behaviour.
MaxWrites == 1
\* Pages a single-class workload (SpecFill) may carve.
MaxFillPages == 2
\* free calls in a single-class workload (SpecFill).
MaxFillFrees == 2

SizeRange == 2 ^ SizeBits
\* (size_t) -1, what xxmalloc_usable_size returns for an untagged page.
Invalid == SizeRange - 1
\* User addresses lie in the lower half of the address space, so that an
\* intptr_t holding one is never negative.
AddrLimit == 2 ^ (SizeBits - 1)
\* One page the program has mapped by other means (its stack), zero at its
\* start, and a pointer into it.
StackBase == AddrLimit - PAGE_SIZE
StackPtr == StackBase + 256
\* A non-null pointer into the never-mapped page at address 0.
WildPtr == WordBytes

Classes == {16, 32, 64, 128, 256, 512, 1024, 2048}
Indexes == 0 .. (NumLists - 1)

VARIABLES
  freelists,  \* freelists[0..7]: the eight list heads
  mem,        \* written memory words: address -> value
  maps,       \* the mappings mmap gave the allocator, oldest first;
              \* size is the class a page was carved for, 0 for a direct region
  status,     \* "running", "exit1" (exit(EXIT_FAILURE)), "exit2" (exit(2)),
              \* "segv" (read or write of an unmapped page), "undefined"
  op,         \* the last call: name, argument, length asked of mmap (-1: none),
              \* whether the pointer returned had never been returned before,
              \* whether a caller already held it
  ret,        \* the value the last call returned
  live,       \* pointers a caller holds: pointer -> the bytes it owns there
  returned,   \* every pointer xxmalloc has returned
  freed,      \* the blocks freed and not handed out again, latest first,
              \* each with the bytes its caller owned (0: it held none)
  nalloc,     \* per list, the number of xxmalloc calls it served
  nfree,      \* the number of xxfree calls that pushed their pointer
  calls,      \* the number of calls so far
  writes,     \* the number of words callers have stored
  diag,       \* the output routine the last call used: "none", "perror"
              \* or "log_message"
  pc,         \* per thread, where it stands in xxmalloc or xxfree ("idle":
              \* in neither)
  loc,        \* per thread, the locals of the call it is in
  raced       \* a thread has entered the allocator while another was in it

vars == <<freelists, mem, maps, status, op, ret, live, returned, freed,
          nalloc, nfree, calls, writes, diag, pc, loc, raced>>

\* The threads of the program; the single-threaded specifications leave
\* them idle.
Threads == {1, 2}
Thr == <<pc, loc, raced>>

NoMmap == 0 - 1

(***************************************************************************)
(* Memory and mmap.                                                        *)
(***************************************************************************)
\* The next address mmap hands out: mappings are placed one after another,
\* starting above the never-mapped page 0.
Brk(mp) == IF mp = <<>> THEN PAGE_SIZE ELSE mp[Len(mp)].base + mp[Len(mp)].len

Mapped(mp, a) ==
  \/ \E i \in 1 .. Len(mp) : mp[i].base <= a /\ a < mp[i].base + mp[i].len
  \/ StackBase <= a /\ a < StackBase + PAGE_SIZE

Range(f) == {f[x] : x \in DOMAIN f}

Rd(m, a) == IF a \in DOMAIN m THEN m[a] ELSE 0

Store(m, a, v) == [x \in DOMAIN m \cup {a} |-> IF x = a THEN v ELSE m[x]]

\* mmap(NULL, len, ...): fails for a length of 0 (EINVAL) and when the address
\* space has no room (ENOMEM); otherwise the kernel may still refuse.
MmapOutcomes(mp, len) ==
  IF len > 0 /\ Brk(mp) + len <= StackBase THEN {TRUE, FALSE} ELSE {FALSE}

(***************************************************************************)
(* The pure helpers of the source.                                         *)
(***************************************************************************)
ROUND_UP(x, y) == IF x % y = 0 THEN x ELSE (x + (y - (x % y))) % SizeRange

\* A roundPowers whose least result is 32.
roundPowersMin32(size) ==
  IF size <= 32 THEN 32
  ELSE IF size <= 64 THEN 64
  ELSE IF size <= 128 THEN 128
  ELSE IF size <= 256 THEN 256
  ELSE IF size <= 512 THEN 512
  ELSE IF size <= 1024 THEN 1024
  ELSE IF size <= 2048 THEN 2048
  ELSE 0 - 1

\* A roundPowers that compares with < : a class width goes one class up.
roundPowersStrict(size) ==
  IF size < 16 THEN 16
  ELSE IF size < 32 THEN 32
  ELSE IF size < 64 THEN 64
  ELSE IF size < 128 THEN 128
  ELSE IF size < 256 THEN 256
  ELSE IF size < 512 THEN 512
  ELSE IF size < 1024 THEN 1024
  ELSE 2048

roundPowers(size) ==
  IF size <= 16 THEN 16
  ELSE IF size <= 32 THEN 32
  ELSE IF size <= 64 THEN 64
  ELSE IF size <= 128 THEN 128
  ELSE IF size <= 256 THEN 256
  ELSE IF size <= 512 THEN 512
  ELSE IF size <= 1024 THEN 1024
  ELSE IF size <= 2048 THEN 2048
  ELSE 0 - 1

RECURSIVE ctzl(_)
\* __builtin_ctzl: the number of trailing zero bits; its result for 0 is
\* undefined, and callers of roundPowersList treat that case apart.
ctzl(x) == IF x <= 0 THEN SizeBits ELSE IF x % 2 = 1 THEN 0 ELSE 1 + ctzl(x \div 2)

roundPowersList(size) == ctzl(size) - 4

\* A carve that leaves the last link as the loop wrote it.
carveLoopOpen(m, page, size) ==
  [x \in DOMAIN m \cup {page + k * size : k \in 1 .. (PAGE_SIZE - 1) \div size} |->
     IF x \in DOMAIN m THEN m[x] ELSE x + size]

\* A carve whose loop stops one block early.
carveLoopShort(m, page, size) ==
  LET count == ((PAGE_SIZE - 1) \div size) - 1
      nodes == {page + k * size : k \in 1 .. count}
  IN  [x \in DOMAIN m \cup nodes \cup {page + count * size} |->
         IF x = page + count * size THEN NULL
         ELSE IF x \in nodes THEN x + size
         ELSE m[x]]

\* The while loop of allocate_blocks (offset = size, 2 size, ... while below
\* PAGE_SIZE, each node linked to the address size bytes higher) and the store
\* after it, which ends the chain at the node visited last.
carveLoop(m, page, size) ==
  LET count == (PAGE_SIZE - 1) \div size
      nodes == {page + k * size : k \in 1 .. count}
      offset == (count + 1) * size
  IN  [x \in DOMAIN m \cup nodes \cup {page + offset - size} |->
         IF x = page + offset - size THEN NULL
         ELSE IF x \in nodes THEN x + size
         ELSE m[x]]

\* A carve that writes no header.
allocateBlocksNoHeader(m, blocked_page, size) == carveLoop(m, blocked_page, size)

\* allocate_blocks after a successful mmap at blocked_page: the memory it
\* leaves; the list it returns is blocked_page + size.
allocate_blocks(m, blocked_page, size) ==
  carveLoop(Store(Store(m, blocked_page, MAGIC_NUMBER),
                  blocked_page + BlockSizeOffset, size),
            blocked_page, size)

\* A removeFirst that drops two nodes.
removeFirstSkip(m, lst) == Rd(m, Rd(m, lst))

\* A removeFirst that does not advance: the head stays on the list.
removeFirstStuck(m, lst) == lst

removeFirst(m, lst) == Rd(m, lst)

\* An addFirst that stores the link at the start of the node's page.
addFirstAtPage(m, lst, freeNode) ==
  Store(m, freeNode - (freeNode % PAGE_SIZE), lst)

\* An addFirst that stores the old head in the two first words of the node.
addFirstBoth(m, lst, freeNode) ==
  Store(Store(m, freeNode, lst), freeNode + WordBytes, lst)

\* An addFirst that links the freed node to itself.
addFirstSelf(m, lst, freeNode) == Store(m, freeNode, freeNode)

\* An addFirst that does not link the freed node to the old head.
addFirstNoLink(m, lst, freeNode) == Store(m, freeNode, NULL)

\* addFirst stores the old head in the freed node; the node is the new head.
addFirst(m, lst, freeNode) == Store(m, freeNode, lst)

\* A header lookup that rounds down to half a page.
PageStartHalf(ptr) == ptr - (ptr % (PAGE_SIZE \div 2))

\* free_address - (free_address % PAGE_SIZE)
PageStart(ptr) == ptr - (ptr % PAGE_SIZE)

\* A size query without the NULL test.
usableSizeNoNull(m, ptr) ==
  IF Rd(m, PageStart(ptr)) # MAGIC_NUMBER THEN Invalid
  ELSE Rd(m, PageStart(ptr) + BlockSizeOffset)

xxmalloc_usable_size(m, ptr) ==
  IF ptr = NULL THEN 0
  ELSE IF Rd(m, PageStart(ptr)) # MAGIC_NUMBER THEN Invalid
  ELSE Rd(m, PageStart(ptr) + BlockSizeOffset)

(***************************************************************************)
(* What the callers ask for.                                               *)
(***************************************************************************)
\* The smallest class that holds n bytes, as the specification states it.
ClassOf(n) == CHOOSE c \in Classes : c >= n /\ \A d \in Classes : d >= n => c <= d

\* The smallest multiple of the page size that holds n bytes, unbounded.
PageMultiple(n) == ((n + PAGE_SIZE - 1) \div PAGE_SIZE) * PAGE_SIZE

\* The bytes a caller owns behind a pointer it asked n bytes for.
Extent(n) == IF n <= MaxClass THEN ClassOf(n) ELSE PageMultiple(n)

\* Request sizes: the least size, each class width and the size after it,
\* page-sized requests, and the largest sizes a size_t holds.
SmallSizes == {0, 1} \cup Classes \cup {c + 1 : c \in Classes \ {MaxClass}}
LargeSizes == {MaxClass + 1, PAGE_SIZE, PAGE_SIZE + 1,
               SizeRange - PAGE_SIZE, SizeRange - PAGE_SIZE + 1, SizeRange - 1}
ReqSizes == SmallSizes \cup LargeSizes

Call(name, arg, len, fresh, held) ==
  [name |-> name, arg |-> arg, len |-> len, fresh |-> fresh, held |-> held]

Ghosts == <<live, returned, freed, nalloc, nfree, writes>>

\* An error path that hands NULL back to the caller instead of ending the
\* process.
StopReturnsNull(how, name, arg, len) ==
  /\ status' = "running"
  /\ op' = Call(name, arg, len, FALSE, FALSE)
  /\ ret' = NULL
  /\ calls' = calls + 1
  /\ diag' = (IF how = "exit1" THEN "perror"
              ELSE IF how = "exit2" THEN "log_message" ELSE "none")
  /\ UNCHANGED <<freelists, mem, maps>>
  /\ UNCHANGED Ghosts
  /\ UNCHANGED Thr

\* The process ends (exit, a fault, undefined behaviour): no call returns.
\* exit(EXIT_FAILURE) follows perror in allocate_blocks, exit(2) follows
\* log_message in xxmalloc.
Stop(how, name, arg, len) ==
  /\ status' = how
  /\ op' = Call(name, arg, len, FALSE, FALSE)
  /\ diag' = (IF how = "exit1" THEN "perror"
              ELSE IF how = "exit2" THEN "log_message" ELSE "none")
  /\ UNCHANGED <<freelists, mem, maps, ret, calls>>
  /\ UNCHANGED Ghosts
  /\ UNCHANGED Thr

\* A call that returns r and changes nothing the allocator owns; said is
\* the output routine it called on its way.
NoChange(name, arg, r, said) ==
  /\ op' = Call(name, arg, NoMmap, FALSE, FALSE)
  /\ ret' = r
  /\ calls' = calls + 1
  /\ diag' = said
  /\ UNCHANGED <<freelists, mem, maps, status>>
  /\ UNCHANGED Ghosts
  /\ UNCHANGED Thr

(***************************************************************************)
(* xxmalloc                                                                *)
(***************************************************************************)
\* size > 2048: the region comes straight from mmap.
MallocLarge(size) ==
  LET len == ROUND_UP(size, PAGE_SIZE)
      p == Brk(maps)
  IN  \E ok \in MmapOutcomes(maps, len) :
        IF ok
          THEN /\ maps' = Append(maps, [base |-> p, len |-> len, size |-> 0])
               /\ ret' = p
               /\ op' = Call("malloc", size, len, p \notin returned, p \in DOMAIN live)
               /\ live' = [q \in DOMAIN live \cup {p} |->
                             IF q = p THEN Extent(size) ELSE live[q]]
               /\ returned' = returned \cup {p}
               /\ calls' = calls + 1
               /\ diag' = "none"
               /\ UNCHANGED <<freelists, mem, status, freed, nalloc, nfree, writes>>
               /\ UNCHANGED Thr
          ELSE Stop("exit2", "malloc", size, len)

\* size <= 2048: the head of the class's list, carved first when it is empty.
MallocSmall(size) ==
  LET sz == roundPowers(size)
      index == roundPowersList(sz)
      empty == freelists[index] = NULL
      page == Brk(maps)
      m1 == IF empty THEN allocate_blocks(mem, page, sz) ELSE mem
      mp1 == IF empty
               THEN Append(maps, [base |-> page, len |-> PAGE_SIZE, size |-> sz])
               ELSE maps
      first == IF empty THEN page + sz ELSE freelists[index]
      len == IF empty THEN PAGE_SIZE ELSE NoMmap
  IN  \E ok \in (IF empty THEN MmapOutcomes(maps, PAGE_SIZE) ELSE {TRUE}) :
        IF ~ok THEN Stop("exit1", "malloc", size, len)
        ELSE IF ~Mapped(mp1, first) THEN Stop("segv", "malloc", size, len)
        ELSE /\ freelists' = [freelists EXCEPT ![index] = removeFirst(m1, first)]
             /\ mem' = m1
             /\ maps' = mp1
             /\ ret' = first
             /\ op' = Call("malloc", size, len, first \notin returned,
                        first \in DOMAIN live)
             /\ live' = [q \in DOMAIN live \cup {first} |->
                           IF q = first THEN Extent(size) ELSE live[q]]
             /\ returned' = returned \cup {first}
             /\ freed' = SelectSeq(freed, LAMBDA e : e.ptr # first)
             /\ nalloc' = [nalloc EXCEPT ![index] = @ + 1]
             /\ calls' = calls + 1
             /\ diag' = "none"
             /\ UNCHANGED <<status, nfree, writes>>
             /\ UNCHANGED Thr

xxmalloc(size) ==
  /\ status = "running"
  /\ IF size > 2048 THEN MallocLarge(size) ELSE MallocSmall(size)

(***************************************************************************)
(* xxfree                                                                  *)
(***************************************************************************)
\* The pointers a caller gives up by freeing ptr: those whose bytes hold ptr.
Released(ptr) == {p \in DOMAIN live : p <= ptr /\ ptr < p + live[p]}

xxfree(ptr) ==
  /\ status = "running"
  /\ IF ptr = NULL THEN NoChange("free", ptr, ret, "none")
     ELSE IF ~Mapped(maps, PageStart(ptr)) THEN Stop("segv", "free", ptr, NoMmap)
     ELSE LET size == xxmalloc_usable_size(mem, ptr)
              index == roundPowersList(size)
          IN  IF size = Invalid THEN NoChange("free", ptr, ret, "perror")
              ELSE IF size = 0 \/ index \notin Indexes
                THEN Stop("undefined", "free", ptr, NoMmap)
              ELSE /\ freelists' = [freelists EXCEPT ![index] = ptr]
                   /\ mem' = addFirst(mem, freelists[index], ptr)
                   /\ op' = Call("free", ptr, NoMmap, FALSE, FALSE)
                   /\ live' = [q \in DOMAIN live \ Released(ptr) |-> live[q]]
                   /\ freed' = <<[ptr |-> ptr,
                                  bytes |-> IF ptr \in DOMAIN live
                                              THEN live[ptr] ELSE 0]>> \o freed
                   /\ nfree' = nfree + 1
                   /\ calls' = calls + 1
                   /\ diag' = "none"
                   /\ UNCHANGED <<maps, status, ret, returned, nalloc, writes>>
                   /\ UNCHANGED Thr

(***************************************************************************)
(* xxmalloc_usable_size as a call                                          *)
(***************************************************************************)
UsableSize(ptr) ==
  /\ status = "running"
  /\ IF ptr # NULL /\ ~Mapped(maps, PageStart(ptr))
       THEN Stop("segv", "usable", ptr, NoMmap)
       ELSE NoChange("usable", ptr, xxmalloc_usable_size(mem, ptr), "none")

(***************************************************************************)
(* A caller stores a word in memory it holds.                              *)
(***************************************************************************)
\* The caller stores two words at the start of a region it holds.
CallerWrite(p, w0, w1) ==
  /\ status = "running"
  /\ p \in DOMAIN live
  /\ mem' = Store(Store(mem, p, w0), p + WordBytes, w1)
  /\ op' = Call("write", p, NoMmap, FALSE, FALSE)
  /\ calls' = calls + 1
  /\ writes' = writes + 1
  /\ diag' = "none"
  /\ UNCHANGED <<freelists, maps, status, ret>>
  /\ UNCHANGED <<live, returned, freed, nalloc, nfree>>
  /\ UNCHANGED Thr

(***************************************************************************)
(* xxmalloc and xxfree run by threads, without synchronization: every      *)
(* read and every write of freelists[index] is a step of its own, and so   *)
(* is the carve with the assignment of its result to the head.             *)
(***************************************************************************)
\* The locals of a thread that is in neither function.
IdleLoc ==
  [size |-> 0, index |-> 0, first |-> NULL, lst |-> NULL, ptr |-> NULL,
   old |-> NULL]

Busy == {t \in Threads : pc[t] # "idle"}

\* A step inside a call: nothing is returned yet.
Inside == UNCHANGED <<status, op, ret, calls, diag, raced>> /\ UNCHANGED Ghosts

\* xxmalloc(size), size <= 2048, up to the test freelists[index] == NULL.
TBeginMalloc(t, size) ==
  /\ status = "running" /\ pc[t] = "idle"
  /\ LET index == roundPowersList(roundPowers(size))
     IN  /\ pc' = [pc EXCEPT ![t] = IF freelists[index] = NULL
                                      THEN "carve" ELSE "first"]
         /\ loc' = [loc EXCEPT ![t] = [IdleLoc EXCEPT !.size = size,
                                                      !.index = index]]
  /\ raced' = (raced \/ Busy \ {t} # {})
  /\ UNCHANGED <<freelists, mem, maps, status, op, ret, calls, diag>>
  /\ UNCHANGED Ghosts

\* freelists[index] = allocate_blocks(size)
TCarve(t) ==
  /\ status = "running" /\ pc[t] = "carve"
  /\ LET sz == roundPowers(loc[t].size)
         page == Brk(maps)
     IN  \E ok \in MmapOutcomes(maps, PAGE_SIZE) :
           IF ~ok THEN Stop("exit1", "malloc", loc[t].size, PAGE_SIZE)
           ELSE /\ maps' = Append(maps, [base |-> page, len |-> PAGE_SIZE,
                                         size |-> sz])
                /\ mem' = allocate_blocks(mem, page, sz)
                /\ freelists' = [freelists EXCEPT ![loc[t].index] = page + sz]
                /\ pc' = [pc EXCEPT ![t] = "first"]
                /\ UNCHANGED loc
                /\ Inside

\* freelist_t* first = freelists[index]
TFirst(t) ==
  /\ status = "running" /\ pc[t] = "first"
  /\ loc' = [loc EXCEPT ![t].first = freelists[loc[t].index]]
  /\ pc' = [pc EXCEPT ![t] = "arg"]
  /\ UNCHANGED <<freelists, mem, maps>>
  /\ Inside

\* The argument of removeFirst: freelists[index], read again.
TArg(t) ==
  /\ status = "running" /\ pc[t] = "arg"
  /\ loc' = [loc EXCEPT ![t].lst = freelists[loc[t].index]]
  /\ pc' = [pc EXCEPT ![t] = "pop"]
  /\ UNCHANGED <<freelists, mem, maps>>
  /\ Inside

\* freelists[index] = removeFirst(...); return first
TPop(t) ==
  /\ status = "running" /\ pc[t] = "pop"
  /\ LET first == loc[t].first
         size == loc[t].size
     IN  IF loc[t].lst = NULL THEN Stop("segv", "malloc", size, NoMmap)
         ELSE /\ freelists' = [freelists EXCEPT
                                 ![loc[t].index] = removeFirst(mem, loc[t].lst)]
              /\ ret' = first
              /\ op' = Call("malloc", size, NoMmap, first \notin returned,
                            first \in DOMAIN live)
              /\ live' = [q \in DOMAIN live \cup ({first} \ {NULL}) |->
                            IF q = first THEN Extent(size) ELSE live[q]]
              /\ returned' = returned \cup ({first} \ {NULL})
              /\ nalloc' = [nalloc EXCEPT ![loc[t].index] = @ + 1]
              /\ calls' = calls + 1
              /\ diag' = "none"
              /\ pc' = [pc EXCEPT ![t] = "idle"]
              /\ loc' = [loc EXCEPT ![t] = IdleLoc]
              /\ UNCHANGED <<mem, maps, status, freed, nfree, writes, raced>>

\* xxfree(ptr) of a held block, up to the read of freelists[index] that is
\* the first argument of addFirst; the caller has given the block up.
TBeginFree(t, ptr) ==
  /\ status = "running" /\ pc[t] = "idle"
  /\ ptr \in DOMAIN live
  /\ LET index == roundPowersList(xxmalloc_usable_size(mem, ptr))
     IN  loc' = [loc EXCEPT ![t] = [IdleLoc EXCEPT !.index = index,
                                                  !.ptr = ptr,
                                                  !.old = freelists[index]]]
  /\ pc' = [pc EXCEPT ![t] = "link"]
  /\ live' = [q \in DOMAIN live \ {ptr} |-> live[q]]
  /\ raced' = (raced \/ Busy \ {t} # {})
  /\ UNCHANGED <<freelists, mem, maps, status, op, ret, calls, diag>>
  /\ UNCHANGED <<returned, freed, nalloc, nfree, writes>>

\* new->next = first, in addFirst
TLink(t) ==
  /\ status = "running" /\ pc[t] = "link"
  /\ mem' = addFirst(mem, loc[t].old, loc[t].ptr)
  /\ pc' = [pc EXCEPT ![t] = "head"]
  /\ UNCHANGED <<freelists, maps, loc>>
  /\ Inside

\* freelists[index] = the node addFirst returned; return
THead(t) ==
  /\ status = "running" /\ pc[t] = "head"
  /\ freelists' = [freelists EXCEPT ![loc[t].index] = loc[t].ptr]
  /\ op' = Call("free", loc[t].ptr, NoMmap, FALSE, FALSE)
  /\ nfree' = nfree + 1
  /\ calls' = calls + 1
  /\ diag' = "none"
  /\ pc' = [pc EXCEPT ![t] = "idle"]
  /\ loc' = [loc EXCEPT ![t] = IdleLoc]
  /\ UNCHANGED <<mem, maps, status, ret, live, returned, freed, nalloc,
                 writes, raced>>

(***************************************************************************)
(* Views of the heap used to state the properties.                         *)
(***************************************************************************)
CarvedMaps == {mp \in Range(maps) : mp.size # 0}
DirectMaps == {mp \in Range(maps) : mp.size = 0}
DirectBases == {mp.base : mp \in DirectMaps}

\* The blocks of a carved page: every multiple of the class width after the
\* first, which holds the header.
BlocksOf(mp) == {mp.base + k * mp.size : k \in 1 .. (PAGE_SIZE \div mp.size) - 1}
AllBlocks == UNION {BlocksOf(mp) : mp \in CarvedMaps}
BlocksOfClass(c) == UNION {BlocksOf(mp) : mp \in {x \in CarvedMaps : x.size = c}}

\* The registry slot of a class width, as the specification states it.
SlotOf(c) == CHOOSE i \in Indexes : 2 ^ (i + 4) = c

RECURSIVE Chain(_, _, _)
\* The first half of a walk joined to the walk from where it ended.
ChainJoin(m, left, half, rest) ==
  IF Len(left) < half THEN left
  ELSE left \o Chain(m, Rd(m, left[Len(left)]), rest)

\* The nodes reached from a list head by following links, at most fuel of
\* them, in list order (the walk is split in halves to keep it shallow).
Chain(m, head, fuel) ==
  IF head = NULL \/ fuel = 0 THEN << >>
  ELSE IF fuel = 1 THEN <<head>>
  ELSE ChainJoin(m, Chain(m, head, fuel \div 2), fuel \div 2,
                 fuel - (fuel \div 2))

\* Long enough to walk every node once and meet a repeated node if any.
Fuel == Cardinality(DOMAIN mem) + 2
ListOf(i) == Chain(mem, freelists[i], Fuel)

\* The bytes behind a pointer a caller holds: the size xxmalloc_usable_size
\* reports for a block, the mapped length for a direct region.
OwnedBytes(p) ==
  IF p \in DirectBases
    THEN (CHOOSE mp \in DirectMaps : mp.base = p).len
    ELSE xxmalloc_usable_size(mem, p)

Returned == op.name = "malloc" /\ status = "running"

\* The freed blocks of one class width that wait to be handed out again.
FreedOfClass(c) == SelectSeq(freed, LAMBDA e : e.bytes = c)

\* Blocks of a carved page and the pages needed for a number of blocks.
BlocksPerPage(c) == (PAGE_SIZE \div c) - 1
CeilDiv(a, b) == (a + b - 1) \div b

\* The written words of the block at p.
BlockWords(p) ==
  {a \in DOMAIN mem : p <= a /\ a < p + xxmalloc_usable_size(mem, p)}

\* xxmalloc has just returned a block it had never returned before.
FirstHandOut == Returned /\ op.fresh /\ op.arg <= MaxClass

(***************************************************************************)
(* Specifications.                                                         *)
(***************************************************************************)
Init ==
  /\ freelists = [i \in Indexes |-> NULL]
  /\ mem = << >>
  /\ maps = << >>
  /\ status = "running"
  /\ op = Call("init", NULL, NoMmap, FALSE, FALSE)
  /\ ret = NULL
  /\ live = << >>
  /\ returned = {}
  /\ freed = << >>
  /\ nalloc = [i \in Indexes |-> 0]
  /\ nfree = 0
  /\ calls = 0
  /\ writes = 0
  /\ diag = "none"
  /\ pc = [t \in Threads |-> "idle"]
  /\ loc = [t \in Threads |-> IdleLoc]
  /\ raced = FALSE

\* The held pointers that are blocks of carved pages, not direct regions.
SmallLive == {p \in DOMAIN live : p \notin {mp.base : mp \in Range(maps)}}

\* The held blocks whose bytes hold q.
BlockHolding(q) == {b \in SmallLive : b <= q /\ q < b + live[b]}

\* Well-behaved callers: free gets a pointer xxmalloc returned for a small
\* request and that is still held; writes stay inside held memory.
WBSizes == {MIN_MALLOC_SIZE, 1024, MaxClass, PAGE_SIZE + 1}

NextWB ==
  \/ calls < MaxCalls /\ \E n \in WBSizes : xxmalloc(n)
  \/ calls < MaxCalls /\ \E p \in SmallLive : xxfree(p)
  \/ /\ calls < MaxCalls
     /\ writes < MaxWrites
     /\ \E p \in DOMAIN live : CallerWrite(p, MAGIC_NUMBER, MIN_MALLOC_SIZE)

SpecWB == Init /\ [][NextWB]_vars

\* Well-behaved callers of two classes, run long enough to free two blocks
\* and get both back.
LifoSizes == {1, MIN_MALLOC_SIZE, MaxClass, PAGE_SIZE + 1}

NextLifo ==
  \/ calls < MaxLifoCalls /\ \E n \in LifoSizes : xxmalloc(n)
  \/ calls < MaxLifoCalls /\ \E p \in SmallLive : xxfree(p)

SpecLifo == Init /\ [][NextLifo]_vars

\* Well-behaved callers asking for every size of ReqSizes.
NextSizes ==
  \/ calls < MaxSizeCalls /\ \E n \in ReqSizes : xxmalloc(n)
  \/ calls < MaxSizeCalls /\ \E p \in SmallLive : xxfree(p)

SpecSizes == Init /\ [][NextSizes]_vars

\* One class only, few frees, as many allocations as MaxFillPages pages hold:
\* the caller asks for the class of the first page and frees the block it
\* got last.
NumCarved(mp, c) == Cardinality({k \in 1 .. Len(mp) : mp[k].size = c})

NextFill ==
  \/ \E n \in Classes :
       /\ maps # << >> => maps[1].size = n
       /\ Len(maps) < MaxFillPages \/ freelists[SlotOf(n)] # NULL
       /\ xxmalloc(n)
  \/ /\ nfree < MaxFillFrees
     /\ op.name = "malloc"
     /\ ret \in DOMAIN live
     /\ xxfree(ret)

SpecFill == Init /\ [][NextFill]_vars

\* Well-behaved callers of classes whose pages hold few blocks, run long
\* enough to use up pages and carve again.
ConsSizes == {256, 1024, MaxClass, PAGE_SIZE + 1}

NextCons ==
  \/ calls < MaxConsCalls /\ \E n \in ConsSizes : xxmalloc(n)
  \/ calls < MaxConsCalls /\ \E p \in SmallLive : xxfree(p)

SpecCons == Init /\ [][NextCons]_vars

\* Callers that free pointers xxmalloc returned for small requests, whether
\* they still hold them or have freed them already (double free).
DFSizes == {MIN_MALLOC_SIZE, MaxClass}

NextDF ==
  \/ calls < MaxDFCalls /\ \E n \in DFSizes : xxmalloc(n)
  \/ calls < MaxDFCalls /\ \E p \in returned : xxfree(p)

SpecDF == Init /\ [][NextDF]_vars

\* Callers whose pointer arguments are NULL or pointers xxmalloc returned,
\* for small and for large requests, held or not; nothing else is stored.
AnySizes == {MIN_MALLOC_SIZE, 1024, PAGE_SIZE + 1}
HdrPtrs == {NULL} \cup returned

NextHdr ==
  \/ calls < MaxHdrCalls /\ \E n \in AnySizes : xxmalloc(n)
  \/ calls < MaxHdrCalls /\ \E p \in HdrPtrs : xxfree(p)
  \/ calls < MaxHdrCalls /\ \E p \in HdrPtrs : UsableSize(p)

SpecHdr == Init /\ [][NextHdr]_vars

\* Two threads that allocate and free blocks of one class; a thread frees
\* only a block that is held and that no other thread is freeing.
MTSizes == {MaxClass \div 2}

NextMT ==
  \E t \in Threads :
    \/ /\ calls + Cardinality(Busy) < MaxMTCalls
       /\ \E n \in MTSizes : TBeginMalloc(t, n)
    \/ TCarve(t)
    \/ TFirst(t)
    \/ TArg(t)
    \/ TPop(t)
    \/ /\ calls + Cardinality(Busy) < MaxMTCalls
       /\ \E p \in DOMAIN live : TBeginFree(t, p)
    \/ TLink(t)
    \/ THead(t)

SpecMT == Init /\ [][NextMT]_vars

\* Any caller: free and the size query get NULL, pointers xxmalloc returned
\* (held or already freed), pointers into held blocks, page bases, a stack
\* address and an unmapped address; callers store header-shaped words.
QueryPtrs ==
  {NULL, StackPtr, WildPtr} \cup returned \cup {mp.base : mp \in Range(maps)}
FreePtrs ==
  QueryPtrs \cup {p + WordBytes : p \in SmallLive}
            \cup {mp.base + PAGE_SIZE - mp.size : mp \in CarvedMaps}
WritePairs == {<<MAGIC_NUMBER, MIN_MALLOC_SIZE>>, <<MAGIC_NUMBER, 0>>}

Next ==
  \/ calls < MaxAnyCalls /\ \E n \in AnySizes : xxmalloc(n)
  \/ calls < MaxAnyCalls /\ \E p \in FreePtrs : xxfree(p)
  \/ calls < MaxAnyCalls /\ \E p \in QueryPtrs : UsableSize(p)
  \/ /\ calls < MaxAnyCalls
     /\ writes < MaxWrites
     /\ \E p \in DOMAIN live, w \in WritePairs : CallerWrite(p, w[1], w[2])

Spec == Init /\ [][Next]_vars

(***************************************************************************)
(* C1: with well-behaved callers, no two live pointers have overlapping    *)
(* byte ranges, no pointer is handed out while a caller holds it, and      *)
(* every block of every carved page is either on the free list of its      *)
(* page's class, exactly once and on no other list, or held by a caller,   *)
(* never both and never neither.                                           *)
(***************************************************************************)
C1_Partition ==
  LET held == DOMAIN live
      lists == <<ListOf(0), ListOf(1), ListOf(2), ListOf(3),
                 ListOf(4), ListOf(5), ListOf(6), ListOf(7)>>
      onList == UNION {Range(lists[i + 1]) : i \in Indexes}
  IN  /\ \A p, q \in held : p < q => p + OwnedBytes(p) <= q
      /\ ~op.held
      /\ \A i \in Indexes :
           LET nodes == Range(lists[i + 1])
           IN  /\ Cardinality(nodes) = Len(lists[i + 1])
               /\ nodes \subseteq BlocksOfClass(2 ^ (i + 4))
               /\ nodes \cap held = {}
      /\ AllBlocks = onList \cup (held \ DirectBases)

\* Two pages of one class, a freed block back on its list, blocks still held.
C1_Witness ==
  /\ \E a, b \in CarvedMaps : a # b /\ a.size = b.size
  /\ \E i \in Indexes : freelists[i] \in returned
  /\ Cardinality(DOMAIN live) >= 2

(***************************************************************************)
(* C2: for a request of 1..2048 bytes, the size query on the pointer       *)
(* xxmalloc returned gives the smallest class width that holds the         *)
(* request, whether the block is fresh or reused.                          *)
(***************************************************************************)
C2_UsableSize ==
  (Returned /\ op.arg >= 1 /\ op.arg <= MaxClass)
    => xxmalloc_usable_size(mem, ret) = ClassOf(op.arg)

\* A request of 17 bytes served by a block that had been freed.
C2_Witness ==
  /\ Returned /\ op.arg = 17 /\ ~op.fresh
  /\ xxmalloc_usable_size(mem, ret) = 32

(***************************************************************************)
(* C3: LIFO reuse.  A small allocation returns the block freed latest      *)
(* among the freed blocks of its class that have not been handed out       *)
(* again; so blocks freed in the order p1, ..., pk come back in the order  *)
(* pk, ..., p1, before any block that was already on the list.             *)
(***************************************************************************)
C3_Lifo ==
  [][(/\ calls' = calls + 1
      /\ op'.name = "malloc"
      /\ status' = "running"
      /\ op'.arg <= MaxClass
      /\ FreedOfClass(ClassOf(op'.arg)) # << >>)
       => ret' = FreedOfClass(ClassOf(op'.arg))[1].ptr]_vars

\* Two blocks of one class were freed; the one freed last has just been
\* handed out and the other is still waiting.
C3_Witness ==
  /\ Returned /\ ~op.fresh /\ op.arg <= MaxClass
  /\ nfree = 2 /\ calls = 5
  /\ Len(freed) = 1
  /\ freed[1].bytes = ClassOf(op.arg)
  /\ freed[1].ptr < ret

(***************************************************************************)
(* C4: free of a non-null pointer that xxmalloc never returned changes no  *)
(* list head, no link and no page header, and the size query on such a     *)
(* pointer returns the invalid-pointer value.                              *)
(***************************************************************************)
C4_NeverReturned ==
  [][(calls' = calls + 1 /\ op'.arg # NULL /\ op'.arg \notin returned)
       => /\ op'.name = "free" => freelists' = freelists /\ mem' = mem
          /\ (op'.name = "usable" /\ status' = "running") => ret' = Invalid]_vars

(***************************************************************************)
(* C5: free of a pointer inside a held block releases that block: the      *)
(* list of the block's class then starts with the block's first address.   *)
(***************************************************************************)
C5_InteriorFree ==
  [][(/\ calls' = calls + 1
      /\ op'.name = "free"
      /\ status' = "running"
      /\ BlockHolding(op'.arg) # {})
       => \A b \in BlockHolding(op'.arg) :
            /\ freelists'[SlotOf(live[b])] = b
            /\ op'.arg \notin Range(Chain(mem', freelists'[SlotOf(live[b])], Fuel + 1))
                 \/ op'.arg = b]_vars

(***************************************************************************)
(* C6: a pointer returned for a request above 2048 bytes is never on a     *)
(* free list, whatever its holder has written, and the size query on it    *)
(* returns the invalid-pointer value.                                      *)
(***************************************************************************)
C6_DirectRejected ==
  \A p \in DirectBases :
    /\ \A i \in Indexes : p \notin Range(ListOf(i))
    /\ xxmalloc_usable_size(mem, p) = Invalid

(***************************************************************************)
(* C7: for a request above 2048 bytes, mmap is asked for the smallest      *)
(* multiple of 4096 that holds the request.                                *)
(***************************************************************************)
C7_PageRounded ==
  (op.name = "malloc" /\ op.arg > MaxClass) => op.len = PageMultiple(op.arg)

(***************************************************************************)
(* C8: free(NULL) and the size query on NULL return normally, the query    *)
(* with 0, and change no list head, no memory word and no mapping.         *)
(***************************************************************************)
C8_NullNoOp ==
  [][(calls' = calls + 1 /\ op'.name \in {"free", "usable"} /\ op'.arg = NULL)
       => /\ status' = "running"
          /\ freelists' = freelists /\ mem' = mem /\ maps' = maps
          /\ op'.name = "usable" => ret' = 0]_vars

\* free(NULL) with a freed block at the head of a list and a block held.
C8_Witness ==
  /\ op.name = "free" /\ op.arg = NULL /\ status = "running"
  /\ \E i \in Indexes : freelists[i] \in returned
  /\ live # << >>

(***************************************************************************)
(* C9: an allocation carves a page exactly when the list of its class is   *)
(* empty at the call; with no frees, k allocations of width s have carved  *)
(* ceil(k / (4096/s - 1)) pages.                                           *)
(***************************************************************************)
C9_CarveWhenEmpty ==
  [][(/\ calls' = calls + 1
      /\ op'.name = "malloc"
      /\ status' = "running"
      /\ op'.arg <= MaxClass)
       => LET c == ClassOf(op'.arg)
          IN  /\ NumCarved(maps', c) = NumCarved(maps, c) + 1
                   <=> freelists[SlotOf(c)] = NULL
              /\ NumCarved(maps', c) \in {NumCarved(maps, c), NumCarved(maps, c) + 1}
              /\ nfree' = 0 =>
                   NumCarved(maps', c) = CeilDiv(nalloc'[SlotOf(c)], BlocksPerPage(c))]_vars

\* 256 blocks of 16 bytes and no free: the second page has just been carved.
C9_Witness ==
  /\ Returned /\ nfree = 0
  /\ nalloc[0] = 256
  /\ NumCarved(maps, 16) = 2
  /\ BlocksPerPage(16) = 255 /\ BlocksPerPage(2048) = 1

(***************************************************************************)
(* C10 as stated: a block handed out for the first time is all zero.       *)
(***************************************************************************)
C10_FreshZero == FirstHandOut => \A a \in BlockWords(ret) : mem[a] = 0

(***************************************************************************)
(* C10, amended: with well-behaved callers, a block handed out for the     *)
(* first time is zero except for its first word, which holds the link      *)
(* written when the page was carved: the address of the next block of the  *)
(* page, or null for the last block of the page.                           *)
(***************************************************************************)
C10_FreshLink ==
  FirstHandOut =>
    LET s == xxmalloc_usable_size(mem, ret)
    IN  /\ \A a \in BlockWords(ret) \ {ret} : mem[a] = 0
        /\ Rd(mem, ret) = IF (ret + s) % PAGE_SIZE = 0 THEN NULL ELSE ret + s

\* A first hand-out with a non-zero first word, after a caller has written
\* to a block and freed a block.
C10_Witness ==
  /\ FirstHandOut
  /\ Rd(mem, ret) # 0
  /\ writes = 1 /\ nfree >= 1

C12_DoubleFreeSafe ==
  LET lists == <<ListOf(0), ListOf(1), ListOf(2), ListOf(3),
                 ListOf(4), ListOf(5), ListOf(6), ListOf(7)>>
  IN  /\ ~op.held
      /\ (Returned /\ op.arg <= MaxClass) =>
           \A i \in Indexes : ret \notin Range(lists[i + 1])
      /\ \A i \in Indexes :
           Cardinality(Range(lists[i + 1])) = Len(lists[i + 1])

C14_CarvedChain ==
  [][(/\ calls' = calls + 1
      /\ op'.name = "malloc"
      /\ op'.len = PAGE_SIZE
      /\ op'.arg <= MaxClass)
       => LET s == ClassOf(op'.arg)
              page == maps'[Len(maps')].base
              n == (PAGE_SIZE \div s) - 1
              nodes == [k \in 1 .. n |-> page + k * s]
          IN  /\ Rd(mem', page) = MAGIC_NUMBER
              /\ Rd(mem', page + BlockSizeOffset) = s
              /\ ret' = page + s
              /\ Chain(mem', ret', Cardinality(DOMAIN mem') + 2) = nodes
              /\ DOMAIN mem' \ DOMAIN mem
                   = {page, page + BlockSizeOffset} \cup Range(nodes)
              /\ \A k \in 1 .. n :
                   /\ nodes[k] >= page + 2 * WordBytes
                   /\ nodes[k] + s <= page + PAGE_SIZE
                   /\ k < n => nodes[k] + s <= nodes[k + 1]]_vars

\* The second page of 16-byte blocks has just been carved: the block
\* returned starts a chain of 255 nodes.
C14_Witness ==
  /\ Returned /\ op.len = PAGE_SIZE /\ op.arg = MIN_MALLOC_SIZE
  /\ Len(maps) = 2
  /\ Len(Chain(mem, ret, Fuel)) = 255

(***************************************************************************)
(* C15: for a non-null pointer whose page (readable, 4096-aligned) does    *)
(* not start with the tag, free returns and changes no head and no link,   *)
(* and the size query returns the invalid value, which is neither 0 nor a  *)
(* class width; free rejects a pointer exactly when the size query gives   *)
(* that value, and otherwise pushes the pointer on the list of index       *)
(* log2(recorded block size) - 4.                                          *)
(***************************************************************************)
C15_RejectUntagged ==
  [][(/\ op'.name \in {"free", "usable"}
      /\ op'.arg # NULL
      /\ status' # "segv")
       => LET p == op'.arg
              pg == p - (p % PAGE_SIZE)
              tagged == Rd(mem, pg) = MAGIC_NUMBER
              rec == Rd(mem, pg + BlockSizeOffset)
              isFree == op'.name = "free"
              rejected == status' = "running" /\ calls' = calls + 1
                            /\ freelists' = freelists /\ mem' = mem
                            /\ nfree' = nfree
          IN  /\ (~tagged /\ isFree) => rejected
              /\ (~tagged /\ ~isFree) => status' = "running" /\ ret' = Invalid
              /\ Invalid \notin Classes \cup {0}
              /\ isFree => (rejected <=> xxmalloc_usable_size(mem, p) = Invalid)
              /\ (tagged /\ isFree /\ rec \in Classes) =>
                   /\ freelists' = [freelists EXCEPT ![SlotOf(rec)] = p]
                   /\ mem' = Store(mem, p, freelists[SlotOf(rec)])
                   /\ nfree' = nfree + 1]_vars

\* free of a stack address, which lies in a readable page without the tag,
\* while a list holds blocks.
C15_Witness ==
  /\ op.name = "free" /\ op.arg = StackPtr /\ status = "running"
  /\ \E i \in Indexes : freelists[i] # NULL

(***************************************************************************)
(* C16: the allocator is not thread-safe.  With two threads in xxmalloc    *)
(* and xxfree on one class, each read and each write of the head a step    *)
(* of its own, states are reached where a block is handed to two callers,  *)
(* where a held block is on the free list, and where blocks are on no      *)
(* list and held by nobody; all of them come from calls that overlap:      *)
(* calls that run one after the other never reach such a state.            *)
(***************************************************************************)
Quiet == Busy = {}
DoubleHandOut == Returned /\ op.held
LiveOnList == \E i \in Indexes : Range(ListOf(i)) \cap DOMAIN live # {}
LostBlocks ==
  AllBlocks \ (DOMAIN live \cup UNION {Range(ListOf(i)) : i \in Indexes})

C16_RaceOnly ==
  (DoubleHandOut \/ LiveOnList \/ (Quiet /\ LostBlocks # {})) => raced

\* Both threads are back from xxmalloc with the same block, and the chain
\* of a carved page is on no list.
C16_Witness ==
  /\ Quiet /\ status = "running"
  /\ DoubleHandOut
  /\ Cardinality(LostBlocks) >= BlocksPerPage(MaxClass \div 2)

(***************************************************************************)
(* C17: the allocator reports only through log_message: it is called       *)
(* before the process ends on a failed mapping of a carved page and of a   *)
(* direct region, and no path of xxmalloc, xxfree or                       *)
(* xxmalloc_usable_size calls another output routine.                      *)
(***************************************************************************)
C17_SinkOnly ==
  /\ diag \in {"none", "log_message"}
  /\ status \in {"exit1", "exit2"} => diag = "log_message"

(***************************************************************************)
(* C18: roundPowers returns, for every integer n <= 2048, zero and         *)
(* negative values included, the smallest class width that is >= max(n,    *)
(* 1), and -1 for n > 2048; roundPowersList maps the eight class widths    *)
(* one to one onto 0..7 as log2(size) - 4; so xxmalloc(0) hands out a      *)
(* 16-byte block of list 0 and xxmalloc uses no index outside 0..7.        *)
(***************************************************************************)
RoundInputs ==
  {0 - SizeRange, 0 - MaxClass, 0 - 1, 0, 1}
    \cup {c - 1 : c \in Classes} \cup Classes \cup {c + 1 : c \in Classes}
    \cup {PAGE_SIZE, SizeRange - 1}

C18_Classify ==
  /\ \A n \in RoundInputs :
       roundPowers(n) = IF n > MaxClass THEN 0 - 1
                        ELSE ClassOf(IF n < 1 THEN 1 ELSE n)
  /\ \A c \in Classes : roundPowersList(c) = SlotOf(c)
  /\ {roundPowersList(c) : c \in Classes} = Indexes
  /\ (Returned /\ op.arg <= MaxClass) =>
       LET index == roundPowersList(roundPowers(op.arg))
       IN  /\ index \in Indexes
           /\ nalloc[index] >= 1
           /\ ret \in BlocksOfClass(2 ^ (index + 4))
  /\ (Returned /\ op.arg = 0) =>
       /\ xxmalloc_usable_size(mem, ret) = MIN_MALLOC_SIZE
       /\ ret \in BlocksOfClass(MIN_MALLOC_SIZE)
       /\ nalloc[0] >= 1

\* xxmalloc(0) has been served twice by list 0, the second time with the
\* block the first call returned.
C18_Witness ==
  /\ Returned /\ op.arg = 0 /\ ~op.fresh
  /\ nalloc[0] = 2
  /\ xxmalloc_usable_size(mem, ret) = MIN_MALLOC_SIZE

(***************************************************************************)
(* C19: block conservation.  With well-behaved callers, in every state     *)
(* and for each class width s, the nodes on the class's list plus the      *)
(* held blocks of the class are as many as the pages carved for the class  *)
(* times (4096/s - 1); the number of carved pages never decreases; a list  *)
(* grows only by a carve or by one node per free, and shrinks only by one  *)
(* node per allocate.                                                      *)
(***************************************************************************)
\* The blocks of the pages carved for class c, in the mappings mp.
BlocksIn(mp, c) ==
  UNION {BlocksOf(mp[k]) : k \in {x \in 1 .. Len(mp) : mp[x].size = c}}

\* The number of nodes on the list that starts at head, in memory m.
ListLen(m, head) == Len(Chain(m, head, Cardinality(DOMAIN m) + 2))

\* A list of before nodes and held blocks of class c, in mappings mp,
\* conserve the blocks of the class.
ConservedAt(c, nodes, held, mp) ==
  nodes + Cardinality(held \cap BlocksIn(mp, c)) = NumCarved(mp, c) * BlocksPerPage(c)

\* What a step may do to the list of class c: before and after are its
\* lengths, carved the pages the step added to the class.
ListStep(c, before, after, carved) ==
  /\ carved >= 0
  /\ after > before =>
       \/ /\ op'.name = "free"
          /\ xxmalloc_usable_size(mem, op'.arg) = c
          /\ after = before + 1
       \/ /\ op'.name = "malloc"
          /\ carved = 1
          /\ after = before + BlocksPerPage(c) - 1
  /\ after < before =>
       /\ op'.name = "malloc" /\ op'.arg <= MaxClass
       /\ ClassOf(op'.arg) = c
       /\ carved = 0
       /\ after = before - 1
  /\ ConservedAt(c, after, DOMAIN live', maps')
  /\ maps = << >> => ConservedAt(c, before, DOMAIN live, maps)

C19_Conservation ==
  [][\A i \in Indexes :
       ListStep(2 ^ (i + 4),
                ListLen(mem, freelists[i]),
                ListLen(mem', freelists'[i]),
                NumCarved(maps', 2 ^ (i + 4)) - NumCarved(maps, 2 ^ (i + 4)))]_vars

\* Two pages of one class of three blocks a page, blocks of it held and a
\* freed block on its list.
C19_Witness ==
  \E i \in Indexes :
    /\ BlocksPerPage(2 ^ (i + 4)) = 3
    /\ NumCarved(maps, 2 ^ (i + 4)) = 2
    /\ DOMAIN live \cap BlocksOfClass(2 ^ (i + 4)) # {}
    /\ freelists[i] \in returned

(***************************************************************************)
(* C20: the eight lists are independent.  xxmalloc(n), n <= 2048, changes  *)
(* only the head of n's class and writes only into a page it has just      *)
(* carved; an accepted free(p) changes only the head of the class          *)
(* recorded in the header of p's page and the first word of p; the size    *)
(* query changes nothing; the other seven heads and the links of the       *)
(* other lists stay as they were.                                          *)
(***************************************************************************)
\* The words whose content differs between two memories.
ChangedWords(m1, m2) ==
  {a \in DOMAIN m1 \cup DOMAIN m2 : Rd(m1, a) # Rd(m2, a)}

\* The heads of all lists but list i are the same in both registries.
OtherHeadsKept(i, h1, h2) == \A j \in Indexes \ {i} : h1[j] = h2[j]

====
